---- MODULE Spec2Model ----
(***************************************************************************)
(* SpeedTest monitor: the measurement cycle (run_speed_test), the          *)
(* scheduler thread (run_scheduler), the session life cycle (start), the   *)
(* view refresh (update_plot) and the two result sinks, as one process     *)
(* with a main thread (thread 0) and one scheduler thread per monitor.     *)
(*                                                                         *)
(* A measurement is named by the value datetime.now() returned for it      *)
(* (line 132): the n-th reading of the clock is n.  Each of the four       *)
(* series holds, at a position, the field of the measurement named there;  *)
(* a tabular row n is the data row of measurement n, and row 0 the header. *)
(* Endpoints are named by their ids; the time of the schedule is counted   *)
(* in minutes.                                                             *)
(***************************************************************************)
EXTENDS Integers, Sequences, FiniteSets, TLC

\* ---------------------------------------------------------------- bounds
MaxSessions == 2
MaxMeasurements == 2
MaxLongRun == 52
MaxGuiMeasurements == 1
MaxFairMeasurements == 1
MaxReliableMeasurements == 2
MaxPersisted == 51
MaxRestartMeasurements == 1
MaxServerMeasurements == 2
MaxTime == 3
MaxTimedMeasurements == 2
MaxLoads == 3
MaxRefreshes == 2
MaxScriptMeasurements == 2

\* ------------------------------------------------------------- constants
MAX_POINTS == 50
max_retries == 3

Monitors == 1..MaxSessions
MainThread == 0
Threads == {MainThread} \cup Monitors
\* the calls of SpeedTestGUI.load_servers: the first by __init__, the others
\* by refresh_servers
Loads == 1..MaxLoads
Formats == {"csv", "json"}
Intervals == {0, 1}
Header == 0

\* server_id=None (or 0, which `if self.server_id` takes alike): the best
\* endpoint is selected automatically
NoServerId == 0
\* the ids of the endpoints get_servers() returns
Servers == {1, 2}
\* the endpoint speedtest selects as best for its download and upload
BestServer == 1
\* the values of server_id: none, an id get_servers() knows, an id it does not
ServerIds == {NoServerId} \cup Servers \cup {3}

VARIABLES
    made,             \* number of SpeedTestMonitor objects constructed so far
    running,          \* self.running, per monitor
    interval_minutes, \* self.interval_minutes, per monitor
    output_formats,   \* self.output_formats, per monitor
    server_id,        \* self.server_id, per monitor
    timestamps,       \* self.timestamps, per monitor
    download_speeds,  \* self.download_speeds, per monitor
    upload_speeds,    \* self.upload_speeds, per monitor
    pings,            \* self.pings, per monitor
    csv,              \* data/speed_test_results.csv
    json,             \* data/speed_test_results.json
    jobs,             \* schedule's module-level job list (one job per do())
    due,              \* per job: its interval has elapsed since it last ran
    clock,            \* readings of datetime.now() taken by cycles so far
    now,              \* the time, in minutes since the process began
    next_run,         \* per job: Job.next_run
    last_begin,       \* per monitor: when its latest run_speed_test was called
    mainPc,           \* where the main thread is in start_monitor / start
    cur,              \* the monitor the main thread is driving (0: none)
    schedPc,          \* where each monitor's scheduler thread is
    runq,             \* per scheduler thread: jobs run_pending still has to run
    cyc,              \* per thread: the run_speed_test call it is executing
    completed,        \* per monitor: "Speed test completed" records logged
    view,             \* the update_plot callback of the main thread
    loading,          \* SpeedTestGUI.loading
    retry_count,      \* SpeedTestGUI.retry_count
    refresh_button,   \* state of SpeedTestGUI.refresh_button
    loads,            \* per call of load_servers: its _load, running or to run
    started,          \* calls of load_servers so far (0: no SpeedTestGUI yet)
    refreshes         \* calls of refresh_servers so far

vars == <<made, running, interval_minutes, output_formats, server_id,
          timestamps, download_speeds, upload_speeds, pings, csv, json, jobs,
          due, clock, now, next_run, last_begin, mainPc, cur, schedPc, runq,
          cyc, completed, view, loading, retry_count, refresh_button, loads,
          started, refreshes>>

config == <<made, running, interval_minutes, output_formats, server_id>>
history == <<timestamps, download_speeds, upload_speeds, pings>>
sinks == <<csv, json>>
schedule == <<jobs, due>>
timer == <<now, next_run, last_begin>>
gui == <<loading, retry_count, refresh_button, loads, started, refreshes>>
mainvars == <<mainPc, cur, view>>
monitor == <<config, history, sinks, schedule, timer, clock, mainvars, schedPc,
             runq, cyc, completed>>

\* ----------------------------------------------------------------- helpers
\* a run_speed_test call: where it is, its monitor, its reading of the clock,
\* the errors logged, the value returned, the lookups made for an endpoint,
\* the endpoint named in `data`, the endpoint the probe measured, and the
\* document save_to_json has read
NoCycle == [pc |-> "idle", mon |-> 0, t |-> 0, errs |-> {}, ret |-> FALSE,
            tries |-> 0, server |-> 0, probed |-> 0, doc |-> <<>>]
NoView == [pc |-> "idle", dl |-> <<>>, ul |-> <<>>, pg |-> <<>>, ts |-> <<>>]
NoFile == [exists |-> FALSE, rows |-> <<>>]
\* a call of load_servers: where its _load is, the thread it is on, the
\* attempts made, the retry_count read by +=, whether a retry was scheduled,
\* the errors shown, whether the servers were loaded
NoLoad == [pc |-> "none", on |-> "none", attempts |-> 0, read |-> 0,
           retry |-> FALSE, errors |-> 0, ok |-> FALSE]

Min(a, b) == IF a < b THEN a ELSE b

\* Faulty variant: a deque built without maxlen: nothing is ever dropped
DequeAppendUnbounded(d, x) == Append(d, x)

\* Faulty variant: a full buffer evicted with pop() instead of popleft(): the newest
\* entry goes, not the oldest
DequeAppendPopsRight(d, x) ==
    IF Len(d) >= MAX_POINTS THEN Append(SubSeq(d, 1, Len(d) - 1), x) ELSE Append(d, x)

\* collections.deque(maxlen=MAX_POINTS).append: the left end is dropped when full
DequeAppend(d, x) ==
    LET e == Append(d, x)
    IN  IF Len(e) > MAX_POINTS THEN Tail(e) ELSE e

\* deque.extend(xs): what appending the xs one by one leaves, the last
\* MAX_POINTS of d followed by xs
DequeExtend(d, xs) ==
    LET e == d \o xs
    IN  IF Len(e) > MAX_POINTS THEN SubSeq(e, Len(e) - MAX_POINTS + 1, Len(e)) ELSE e

\* DataFrame.tail(n)
DfTail(rows, n) ==
    IF Len(rows) <= n THEN rows ELSE SubSeq(rows, Len(rows) - n + 1, Len(rows))

\* pd.read_csv: the first row names the columns, the rest are the data
CsvColumnsOk(rows) == rows # <<>> /\ Head(rows) = Header
CsvData(rows) == Tail(rows)

\* the rows load_existing_data puts in each series
LoadedRows(file) ==
    IF file.exists /\ CsvColumnsOk(file.rows)
    THEN DfTail(CsvData(file.rows), MAX_POINTS)
    ELSE <<>>

\* Faulty variant: the tabular sink opened with 'w' whether it exists or not
InitCsvTruncates(file, fmts) ==
    IF "csv" \in fmts THEN [exists |-> TRUE, rows |-> <<Header>>] ELSE file

\* initialize_output_files: create a requested sink that is absent
InitCsv(file, fmts) ==
    IF "csv" \in fmts /\ ~file.exists
    THEN [exists |-> TRUE, rows |-> <<Header>>] ELSE file
InitJson(file, fmts) ==
    IF "json" \in fmts /\ ~file.exists
    THEN [exists |-> TRUE, rows |-> <<>>] ELSE file

\* Faulty variant: run_pending runs every job, whatever its next_run
ShouldRunAlways(j) == TRUE

\* Job.should_run: next_run <= now
ShouldRun(j) == interval_minutes[j] <= 0 \/ due[j]

\* Scheduler.run_pending: the jobs that should run, in list order
RECURSIVE Runnable(_)
Runnable(js) ==
    IF js = <<>> THEN <<>>
    ELSE IF ShouldRun(Head(js)) THEN <<Head(js)>> \o Runnable(Tail(js))
    ELSE Runnable(Tail(js))

\* where run_speed_test goes after `stage` of save_results
AfterAppend(m) ==
    IF "csv" \in output_formats[m] THEN "save_csv"
    ELSE IF "json" \in output_formats[m] THEN "save_json" ELSE "done"
AfterCsv(m) == IF "json" \in output_formats[m] THEN "save_json" ELSE "done"

InFlight(t) == cyc[t].pc \notin {"idle", "done"}

\* ------------------------------------------------------------------- Init
\* the process before any monitor is constructed
InitProcess ==
    /\ made = 0
    /\ running = [m \in Monitors |-> FALSE]
    /\ interval_minutes = [m \in Monitors |-> 1]
    /\ output_formats = [m \in Monitors |-> {}]
    /\ server_id = [m \in Monitors |-> NoServerId]
    /\ timestamps = [m \in Monitors |-> <<>>]
    /\ download_speeds = [m \in Monitors |-> <<>>]
    /\ upload_speeds = [m \in Monitors |-> <<>>]
    /\ pings = [m \in Monitors |-> <<>>]
    /\ jobs = <<>>
    /\ due = [m \in Monitors |-> FALSE]
    /\ now = 0
    /\ next_run = [m \in Monitors |-> 0]
    /\ last_begin = [m \in Monitors |-> 0]
    /\ mainPc = "idle"
    /\ cur = 0
    /\ schedPc = [m \in Monitors |-> "new"]
    /\ runq = [m \in Monitors |-> <<>>]
    /\ cyc = [t \in Threads |-> NoCycle]
    /\ completed = [m \in Monitors |-> 0]
    /\ view = NoView
    /\ loading = FALSE
    /\ retry_count = 0
    /\ refresh_button = "normal"
    /\ loads = [c \in Loads |-> NoLoad]
    /\ started = 0
    /\ refreshes = 0

\* the first run of the program: no sink exists yet
Init ==
    /\ InitProcess
    /\ csv = NoFile
    /\ json = NoFile
    /\ clock = 0

\* ------------------------------------------------- SpeedTestMonitor.__init__
\* The main thread constructs the next monitor: fields, initialize_output_files,
\* load_existing_data.
Construct(maxSessions, intervals, formatSets, serverIds) ==
    /\ mainPc = "idle"
    /\ made < maxSessions
    /\ \E iv \in intervals, fmts \in formatSets, sid \in serverIds :
        LET m == made + 1
            csv1 == InitCsv(csv, fmts)
            json1 == InitJson(json, fmts)
            rows == LoadedRows(csv1)
        IN  /\ made' = m
            /\ running' = [running EXCEPT ![m] = TRUE]
            /\ interval_minutes' = [interval_minutes EXCEPT ![m] = iv]
            /\ output_formats' = [output_formats EXCEPT ![m] = fmts]
            /\ server_id' = [server_id EXCEPT ![m] = sid]
            /\ csv' = csv1
            /\ json' = json1
            /\ timestamps' = [timestamps EXCEPT ![m] = DequeExtend(<<>>, rows)]
            /\ download_speeds' = [download_speeds EXCEPT ![m] = DequeExtend(<<>>, rows)]
            /\ upload_speeds' = [upload_speeds EXCEPT ![m] = DequeExtend(<<>>, rows)]
            /\ pings' = [pings EXCEPT ![m] = DequeExtend(<<>>, rows)]
            /\ cur' = m
            /\ mainPc' = "start"
    /\ UNCHANGED <<gui, timer, schedule, clock, schedPc, runq, cyc, completed, view>>

\* initialize_output_files raises (the sink cannot be created): the constructor
\* fails and no monitor exists; a sink created before the failure stays.
ConstructFails(maxSessions, formatSets) ==
    /\ mainPc = "idle"
    /\ made < maxSessions
    /\ \E fmts \in formatSets :
        /\ \/ "csv" \in fmts /\ ~csv.exists /\ csv' = csv
           \/ "json" \in fmts /\ ~json.exists /\ csv' = InitCsv(csv, fmts)
    /\ UNCHANGED <<gui, timer, config, history, json, schedule, clock, mainvars, schedPc,
                   runq, cyc, completed>>

\* --------------------------------------------------- SpeedTestMonitor.start
\* scheduler_thread.start() and the call of run_speed_test on the main thread
Start ==
    /\ mainPc = "start"
    /\ schedPc' = [schedPc EXCEPT ![cur] = "register"]
    /\ cyc' = [cyc EXCEPT ![MainThread] = [NoCycle EXCEPT !.pc = "resolve", !.mon = cur]]
    /\ mainPc' = "initial"
    /\ last_begin' = [last_begin EXCEPT ![cur] = now]
    /\ UNCHANGED <<gui, now, next_run, config, history, sinks, schedule, clock, cur, runq, completed, view>>

\* the initial run_speed_test returned: FuncAnimation, plt.show()
ShowPlot ==
    /\ mainPc = "initial"
    /\ cyc[MainThread].pc = "done"
    /\ cyc' = [cyc EXCEPT ![MainThread] = NoCycle]
    /\ mainPc' = "show"
    /\ UNCHANGED <<gui, timer, config, history, sinks, schedule, clock, cur, schedPc, runq,
                   completed, view>>

\* the plot window is closed: plt.show() returns
CloseWindow ==
    /\ mainPc = "show"
    /\ view.pc \in {"idle", "done"}
    /\ view' = NoView
    /\ mainPc' = "cleanup"
    /\ UNCHANGED <<gui, timer, config, history, sinks, schedule, clock, cur, schedPc, runq,
                   cyc, completed>>

\* finally: self.running = False
StopRunning ==
    /\ mainPc = "cleanup"
    /\ running' = [running EXCEPT ![cur] = FALSE]
    /\ mainPc' = "join"
    /\ UNCHANGED <<gui, timer, made, interval_minutes, output_formats, server_id,
                   history, sinks,
                   schedule, clock, cur, schedPc, runq, cyc, completed, view>>

\* Faulty variant: join() without a timeout returns once the thread has ended
JoinWaitsForThread ==
    /\ mainPc = "join"
    /\ schedPc[cur] = "exited"
    /\ mainPc' = "idle"
    /\ cur' = 0
    /\ UNCHANGED <<gui, timer, config, history, sinks, schedule, clock, schedPc, runq, cyc,
                   completed, view>>

\* scheduler_thread.join(timeout=1) returns, the thread ended or not
JoinReturns ==
    /\ mainPc = "join"
    /\ mainPc' = "idle"
    /\ cur' = 0
    /\ UNCHANGED <<gui, timer, config, history, sinks, schedule, clock, schedPc, runq, cyc,
                   completed, view>>

\* ------------------------------------------- SpeedTestMonitor.run_scheduler
\* schedule.every(self.interval_minutes).minutes.do(self.run_speed_test)
Register(m) ==
    /\ schedPc[m] = "register"
    /\ jobs' = Append(jobs, m)
    /\ next_run' = [next_run EXCEPT ![m] = now + interval_minutes[m]]
    /\ schedPc' = [schedPc EXCEPT ![m] = "check"]
    /\ UNCHANGED <<gui, now, last_begin, config, history, sinks, due, clock, mainvars, runq, cyc, completed>>

\* while self.running
CheckRunning(m) ==
    /\ schedPc[m] = "check"
    /\ schedPc' = [schedPc EXCEPT ![m] = IF running[m] THEN "pending" ELSE "exited"]
    /\ UNCHANGED <<gui, timer, config, history, sinks, schedule, clock, mainvars, runq, cyc,
                   completed>>

\* schedule.run_pending() picks the runnable jobs; with none, time.sleep(1)
RunPending(m) ==
    /\ schedPc[m] = "pending"
    /\ LET q == Runnable(jobs)
       IN  /\ runq' = [runq EXCEPT ![m] = q]
           /\ schedPc' = [schedPc EXCEPT ![m] = IF q = <<>> THEN "check" ELSE "jobs"]
    /\ UNCHANGED <<gui, timer, config, history, sinks, schedule, clock, mainvars, cyc, completed>>

\* run_pending calls the next runnable job: run_speed_test of the job's monitor
RunJob(m) ==
    /\ schedPc[m] = "jobs"
    /\ cyc[m].pc = "idle"
    /\ runq[m] # <<>>
    /\ cyc' = [cyc EXCEPT ![m] = [NoCycle EXCEPT !.pc = "resolve", !.mon = Head(runq[m])]]
    /\ last_begin' = [last_begin EXCEPT ![Head(runq[m])] = now]
    /\ UNCHANGED <<gui, now, next_run, config, history, sinks, schedule, clock, mainvars, schedPc,
                   runq, completed>>

\* the job returned: schedule sets its next run one interval from now; after
\* the last runnable job, time.sleep(1)
JobDone(m) ==
    /\ schedPc[m] = "jobs"
    /\ cyc[m].pc = "done"
    /\ due' = [due EXCEPT ![cyc[m].mon] = FALSE]
    /\ next_run' = [next_run EXCEPT ![cyc[m].mon] = now + interval_minutes[cyc[m].mon]]
    /\ cyc' = [cyc EXCEPT ![m] = NoCycle]
    /\ runq' = [runq EXCEPT ![m] = Tail(runq[m])]
    /\ schedPc' = [schedPc EXCEPT ![m] = IF Tail(runq[m]) = <<>> THEN "check" ELSE "jobs"]
    /\ UNCHANGED <<gui, now, last_begin, config, history, sinks, jobs, clock, mainvars,
                   completed>>

\* interval_minutes minutes have passed since job j was scheduled or last ran
IntervalElapses(j) ==
    /\ \E i \in 1..Len(jobs) : jobs[i] = j
    /\ interval_minutes[j] > 0
    /\ ~due[j]
    /\ due' = [due EXCEPT ![j] = TRUE]
    /\ UNCHANGED <<gui, timer, config, history, sinks, jobs, clock, mainvars, schedPc, runq,
                   cyc, completed>>

\* scheduler thread m is in time.sleep(1) with no job to run, or waits for a
\* probe to return (or has not begun, or has ended)
Waiting(m) ==
    \/ schedPc[m] \in {"new", "exited"}
    \/ schedPc[m] = "check" /\ Runnable(jobs) = <<>>
    \/ schedPc[m] = "jobs" /\ cyc[m].pc = "probe"

\* a minute passes while the scheduler threads sleep or wait for a probe: the
\* jobs whose next_run is reached should run
Tick(maxTime) ==
    /\ now < maxTime
    /\ \A m \in Monitors : Waiting(m)
    /\ now' = now + 1
    /\ due' = [j \in Monitors |->
                 due[j] \/ ((\E i \in 1..Len(jobs) : jobs[i] = j) /\ next_run[j] <= now + 1)]
    /\ UNCHANGED <<gui, config, history, sinks, jobs, clock, next_run, last_begin, mainvars,
                   schedPc, runq, cyc, completed>>

\* ------------------------------------------ SpeedTestMonitor.run_speed_test
\* `server`: the entry of get_servers() with id server_id or, with no
\* server_id, what get_best_server() returns
Resolved(m) == IF server_id[m] = NoServerId THEN BestServer ELSE server_id[m]

\* Faulty variant: the timestamp is recorded when the cycle starts, before the probe
ResolveRecordsEarly(t) ==
    /\ cyc[t].pc = "resolve"
    /\ server_id[cyc[t].mon] \in Servers \cup {NoServerId}
    /\ cyc' = [cyc EXCEPT ![t].pc = "probe", ![t].tries = 1,
                          ![t].server = Resolved(cyc[t].mon)]
    /\ timestamps' = [timestamps EXCEPT ![cyc[t].mon] = Append(@, clock + 1)]
    /\ UNCHANGED <<gui, timer, config, download_speeds, upload_speeds, pings, sinks, schedule,
                   clock, mainvars, schedPc, runq, completed>>

\* Speedtest(), get_servers(), then the one lookup of server_id among the
\* servers or, with no server_id, the one call of get_best_server()
Resolve(t) ==
    /\ cyc[t].pc = "resolve"
    /\ server_id[cyc[t].mon] \in Servers \cup {NoServerId}
    /\ cyc' = [cyc EXCEPT ![t].pc = "probe", ![t].tries = 1,
                          ![t].server = Resolved(cyc[t].mon)]
    /\ UNCHANGED <<gui, timer, config, history, sinks, schedule, clock, mainvars, schedPc,
                   runq, completed>>

\* Faulty variant: no except clause: the exception leaves run_speed_test and ends the
\* thread that called it
FailedPropagates(c, what) == [c EXCEPT !.pc = "raised", !.errs = {what}]

\* the except clause of run_speed_test: the error is logged, return False
Failed(c, what) == [c EXCEPT !.pc = "done", !.ret = FALSE, !.errs = {what}]

\* Speedtest(), get_servers() or get_best_server() raises
ResolveFails(t) ==
    /\ cyc[t].pc = "resolve"
    /\ cyc' = [cyc EXCEPT ![t] = Failed([@ EXCEPT !.tries = 1], "resolve")]
    /\ UNCHANGED <<gui, timer, config, history, sinks, schedule, clock, mainvars, schedPc,
                   runq, completed>>

\* Faulty variant: a server_id that is not found falls back to the best endpoint
ResolveNotFoundFallsBack(t) ==
    /\ cyc[t].pc = "resolve"
    /\ server_id[cyc[t].mon] \notin Servers \cup {NoServerId}
    /\ cyc' = [cyc EXCEPT ![t].pc = "probe", ![t].tries = 2,
                          ![t].server = BestServer]
    /\ UNCHANGED <<gui, timer, config, history, sinks, schedule, clock, mainvars, schedPc,
                   runq, completed>>

\* no server of get_servers() has the id server_id: ValueError
ResolveNotFound(t) ==
    /\ cyc[t].pc = "resolve"
    /\ server_id[cyc[t].mon] \notin Servers \cup {NoServerId}
    /\ cyc' = [cyc EXCEPT ![t] = Failed([@ EXCEPT !.tries = 1], "notfound")]
    /\ UNCHANGED <<gui, timer, config, history, sinks, schedule, clock, mainvars, schedPc,
                   runq, completed>>

\* st.download(), st.upload() on the endpoint speedtest holds as best,
\* st.results.ping, then datetime.now()
Probe(t, cap) ==
    /\ cyc[t].pc = "probe"
    /\ clock < cap
    /\ clock' = clock + 1
    /\ cyc' = [cyc EXCEPT ![t].pc = "app_ts", ![t].t = clock + 1,
                          ![t].probed = BestServer]
    /\ UNCHANGED <<gui, timer, config, history, sinks, schedule, mainvars, schedPc, runq,
                   completed>>

\* st.download(), st.upload() or the read of st.results.ping raises
ProbeFails(t) ==
    /\ cyc[t].pc = "probe"
    /\ cyc' = [cyc EXCEPT ![t] = Failed(@, "probe")]
    /\ UNCHANGED <<gui, timer, config, history, sinks, schedule, clock, mainvars, schedPc,
                   runq, completed>>

\* self.timestamps.append(current_time)
AppendTimestamp(t) ==
    /\ cyc[t].pc = "app_ts"
    /\ timestamps' = [timestamps EXCEPT ![cyc[t].mon] = DequeAppend(@, cyc[t].t)]
    /\ cyc' = [cyc EXCEPT ![t].pc = "app_dl"]
    /\ UNCHANGED <<gui, timer, config, download_speeds, upload_speeds, pings, sinks, schedule,
                   clock, mainvars, schedPc, runq, completed>>

\* self.download_speeds.append(download_speed)
AppendDownload(t) ==
    /\ cyc[t].pc = "app_dl"
    /\ download_speeds' = [download_speeds EXCEPT ![cyc[t].mon] = DequeAppend(@, cyc[t].t)]
    /\ cyc' = [cyc EXCEPT ![t].pc = "app_ul"]
    /\ UNCHANGED <<gui, timer, config, timestamps, upload_speeds, pings, sinks, schedule,
                   clock, mainvars, schedPc, runq, completed>>

\* self.upload_speeds.append(upload_speed)
AppendUpload(t) ==
    /\ cyc[t].pc = "app_ul"
    /\ upload_speeds' = [upload_speeds EXCEPT ![cyc[t].mon] = DequeAppend(@, cyc[t].t)]
    /\ cyc' = [cyc EXCEPT ![t].pc = "app_pg"]
    /\ UNCHANGED <<gui, timer, config, timestamps, download_speeds, pings, sinks, schedule,
                   clock, mainvars, schedPc, runq, completed>>

\* the "Speed test completed" record and return True, once save_results is over
Finish(c, m, pc) ==
    IF pc = "done" THEN [completed EXCEPT ![m] = @ + 1] ELSE c

\* self.pings.append(ping), then save_results with no sink configured
AppendPing(t) ==
    /\ cyc[t].pc = "app_pg"
    /\ pings' = [pings EXCEPT ![cyc[t].mon] = DequeAppend(@, cyc[t].t)]
    /\ cyc' = [cyc EXCEPT ![t].pc = AfterAppend(cyc[t].mon),
                          ![t].ret = (AfterAppend(cyc[t].mon) = "done")]
    /\ completed' = Finish(completed, cyc[t].mon, AfterAppend(cyc[t].mon))
    /\ UNCHANGED <<gui, timer, config, timestamps, download_speeds, upload_speeds, sinks,
                   schedule, clock, mainvars, schedPc, runq>>

\* Faulty variant: save_to_csv and save_results without their except clauses: the
\* error reaches the except clause of run_speed_test
CsvReturnAborts(c, failed) ==
    IF failed THEN [c EXCEPT !.pc = "done", !.ret = FALSE, !.errs = @ \cup {"csv"}]
    ELSE [c EXCEPT !.pc = AfterCsv(c.mon), !.ret = (AfterCsv(c.mon) = "done")]

\* where run_speed_test is after save_to_csv returned, its error logged or not
CsvReturn(c, failed) ==
    [c EXCEPT !.pc = AfterCsv(c.mon), !.ret = (AfterCsv(c.mon) = "done"),
              !.errs = IF failed THEN @ \cup {"csv"} ELSE @]

\* save_to_csv: open(csv_file, 'a') and one row
SaveToCsv(t) ==
    /\ cyc[t].pc = "save_csv"
    /\ csv' = [exists |-> TRUE, rows |-> Append(csv.rows, cyc[t].t)]
    /\ cyc' = [cyc EXCEPT ![t] = CsvReturn(@, FALSE)]
    /\ completed' = Finish(completed, cyc[t].mon, AfterCsv(cyc[t].mon))
    /\ UNCHANGED <<gui, timer, config, history, json, schedule, clock, mainvars, schedPc, runq>>

\* save_to_csv: the open or the write raises; the error is logged in save_to_csv
SaveToCsvFails(t) ==
    /\ cyc[t].pc = "save_csv"
    /\ cyc' = [cyc EXCEPT ![t] = CsvReturn(@, TRUE)]
    /\ completed' = Finish(completed, cyc[t].mon, AfterCsv(cyc[t].mon))
    /\ UNCHANGED <<gui, timer, config, history, sinks, schedule, clock, mainvars, schedPc, runq>>

\* where run_speed_test is after save_to_json returned, its error logged or not
JsonReturn(c, failed) ==
    [c EXCEPT !.pc = "done", !.ret = TRUE, !.doc = <<>>,
              !.errs = IF failed THEN @ \cup {"json"} ELSE @]

\* save_to_json: the document is read from the file or, with no file, begun
ReadJson(t) ==
    /\ cyc[t].pc = "save_json"
    /\ cyc' = [cyc EXCEPT ![t].pc = "write_json",
                          ![t].doc = IF json.exists THEN json.rows ELSE <<>>]
    /\ UNCHANGED <<gui, timer, config, history, sinks, schedule, clock, mainvars, schedPc,
                   runq, completed>>

\* save_to_json: the entry is appended to the document read, and the file is
\* rewritten with it
SaveToJson(t) ==
    /\ cyc[t].pc = "write_json"
    /\ json' = [exists |-> TRUE, rows |-> Append(cyc[t].doc, cyc[t].t)]
    /\ cyc' = [cyc EXCEPT ![t] = JsonReturn(@, FALSE)]
    /\ completed' = Finish(completed, cyc[t].mon, "done")
    /\ UNCHANGED <<gui, timer, config, history, csv, schedule, clock, mainvars, schedPc, runq>>

\* save_to_json: the read or the write raises; the error is logged in save_to_json
SaveToJsonFails(t) ==
    /\ cyc[t].pc \in {"save_json", "write_json"}
    /\ cyc' = [cyc EXCEPT ![t] = JsonReturn(@, TRUE)]
    /\ completed' = Finish(completed, cyc[t].mon, "done")
    /\ UNCHANGED <<gui, timer, config, history, sinks, schedule, clock, mainvars, schedPc, runq>>

\* ---------------------------------------------- SpeedTestMonitor.update_plot
\* x_data and line_download.set_data(x_data, list(self.download_speeds))
PlotDownload ==
    /\ mainPc = "show"
    /\ view.pc \in {"idle", "done"}
    /\ view' = [NoView EXCEPT !.pc = "ul", !.dl = download_speeds[cur]]
    /\ UNCHANGED <<gui, timer, config, history, sinks, schedule, clock, mainPc, cur, schedPc,
                   runq, cyc, completed>>

\* line_upload.set_data(x_data, list(self.upload_speeds))
PlotUpload ==
    /\ view.pc = "ul"
    /\ view' = [view EXCEPT !.pc = "pg", !.ul = upload_speeds[cur]]
    /\ UNCHANGED <<gui, timer, config, history, sinks, schedule, clock, mainPc, cur, schedPc,
                   runq, cyc, completed>>

\* line_ping.set_data(x_data, list(self.pings))
PlotPing ==
    /\ view.pc = "pg"
    /\ view' = [view EXCEPT !.pc = "ts", !.pg = pings[cur]]
    /\ UNCHANGED <<gui, timer, config, history, sinks, schedule, clock, mainPc, cur, schedPc,
                   runq, cyc, completed>>

\* the tick labels from self.timestamps
PlotTimestamps ==
    /\ view.pc = "ts"
    /\ view' = [view EXCEPT !.pc = "done", !.ts = timestamps[cur]]
    /\ UNCHANGED <<gui, timer, config, history, sinks, schedule, clock, mainPc, cur, schedPc,
                   runq, cyc, completed>>

\* --------------------------------------------------------------- SpeedTestGUI
\* SpeedTestGUI.__init__: the retry state, then load_servers, which starts a
\* thread on _load
GuiInit ==
    /\ started = 0
    /\ loading' = FALSE
    /\ retry_count' = 0
    /\ loads' = [loads EXCEPT ![1] = [NoLoad EXCEPT !.pc = "start", !.on = "thread"]]
    /\ started' = 1
    /\ UNCHANGED <<monitor, refresh_button, refreshes>>

\* the Tk main thread is inside a _load that root.after called
MainBusy ==
    \E c \in Loads :
        /\ loads[c].on = "main"
        /\ loads[c].pc \in {"get", "except", "read", "write", "error", "finally"}

\* _load begins, on its thread or, as a retry, on the Tk main thread:
\* self.loading = True, then Speedtest() and get_servers()
BeginLoad(c) ==
    /\ \/ loads[c].pc = "start"
       \/ loads[c].pc = "pending" /\ ~MainBusy
    /\ loading' = TRUE
    /\ loads' = [loads EXCEPT ![c].pc = "get", ![c].attempts = @ + 1,
                              ![c].retry = FALSE,
                              ![c].on = IF loads[c].pc = "start" THEN "thread" ELSE "main"]
    /\ UNCHANGED <<monitor, retry_count, refresh_button, started, refreshes>>

\* get_servers() returned: the dropdowns are filled and the count is shown
LoadSucceeds(c) ==
    /\ loads[c].pc = "get"
    /\ loads' = [loads EXCEPT ![c].pc = "finally", ![c].ok = TRUE]
    /\ UNCHANGED <<monitor, loading, retry_count, refresh_button, started, refreshes>>

\* Speedtest() or get_servers() raised
LoadFails(c) ==
    /\ loads[c].pc = "get"
    /\ loads' = [loads EXCEPT ![c].pc = "except"]
    /\ UNCHANGED <<monitor, loading, retry_count, refresh_button, started, refreshes>>

\* if self.retry_count < self.max_retries
CompareRetries(c) ==
    /\ loads[c].pc = "except"
    /\ loads' = [loads EXCEPT ![c].pc = IF retry_count < max_retries THEN "read" ELSE "error"]
    /\ UNCHANGED <<monitor, loading, retry_count, refresh_button, started, refreshes>>

\* self.retry_count += 1: the attribute is read
ReadRetryCount(c) ==
    /\ loads[c].pc = "read"
    /\ loads' = [loads EXCEPT ![c].pc = "write", ![c].read = retry_count]
    /\ UNCHANGED <<monitor, loading, retry_count, refresh_button, started, refreshes>>

\* self.retry_count += 1: the sum is stored; then root.after(5000, _load)
WriteRetryCount(c) ==
    /\ loads[c].pc = "write"
    /\ retry_count' = loads[c].read + 1
    /\ loads' = [loads EXCEPT ![c].pc = "finally", ![c].retry = TRUE, ![c].read = 0]
    /\ UNCHANGED <<monitor, loading, refresh_button, started, refreshes>>

\* no retry is left: the error is logged and show_error shows it
ShowError(c) ==
    /\ loads[c].pc = "error"
    /\ loads' = [loads EXCEPT ![c].pc = "finally", ![c].errors = @ + 1]
    /\ UNCHANGED <<monitor, loading, retry_count, refresh_button, started, refreshes>>

\* finally: self.loading = False; _load returns, its retry scheduled or not
LoadReturns(c) ==
    /\ loads[c].pc = "finally"
    /\ loading' = FALSE
    /\ loads' = [loads EXCEPT ![c].pc = IF loads[c].retry THEN "pending" ELSE "done"]
    /\ UNCHANGED <<monitor, retry_count, refresh_button, started, refreshes>>

\* refresh_servers, called by the refresh button on the Tk main thread
RefreshServers ==
    /\ started >= 1
    /\ refreshes < MaxRefreshes
    /\ refresh_button = "normal"
    /\ ~MainBusy
    /\ refreshes' = refreshes + 1
    /\ \/ /\ ~loading
          /\ started < MaxLoads
          /\ retry_count' = 0
          /\ refresh_button' = "disabled"
          /\ loads' = [loads EXCEPT ![started + 1] =
                                      [NoLoad EXCEPT !.pc = "start", !.on = "thread"]]
          /\ started' = started + 1
       \/ /\ loading
          /\ UNCHANGED <<retry_count, refresh_button, loads, started>>
    /\ UNCHANGED <<monitor, loading>>

\* the callback of root.after(2000, ...): the refresh button is enabled again
EnableButton ==
    /\ refresh_button = "disabled"
    /\ ~MainBusy
    /\ refresh_button' = "normal"
    /\ UNCHANGED <<monitor, loading, retry_count, loads, started, refreshes>>

LoadStep(c) ==
    \/ BeginLoad(c)
    \/ LoadSucceeds(c)
    \/ LoadFails(c)
    \/ CompareRetries(c)
    \/ ReadRetryCount(c)
    \/ WriteRetryCount(c)
    \/ ShowError(c)
    \/ LoadReturns(c)

\* ------------------------------------------------------------- myspeedtest
\* the script's one job and the slot of its module-level deques
Script == 1

\* main up to plt.show(): the csv file created ('x') unless it exists,
\* load_existing_data, list_available_servers, setup_schedule, the
\* FuncAnimation, the thread of the initial run_speed_test started
ScriptMain(intervals, serverIds) ==
    /\ mainPc = "idle"
    /\ jobs = <<>>
    /\ \E i \in intervals, s \in serverIds :
        /\ interval_minutes' = [interval_minutes EXCEPT ![Script] = i]
        /\ server_id' = [server_id EXCEPT ![Script] = s]
        /\ next_run' = [next_run EXCEPT ![Script] = now + i]
    /\ LET file == IF csv.exists THEN csv ELSE [exists |-> TRUE, rows |-> <<Header>>]
       IN  /\ csv' = file
           /\ timestamps' = [timestamps EXCEPT ![Script] = DequeExtend(@, LoadedRows(file))]
           /\ download_speeds' =
                  [download_speeds EXCEPT ![Script] = DequeExtend(@, LoadedRows(file))]
           /\ upload_speeds' =
                  [upload_speeds EXCEPT ![Script] = DequeExtend(@, LoadedRows(file))]
           /\ pings' = [pings EXCEPT ![Script] = DequeExtend(@, LoadedRows(file))]
    /\ jobs' = <<Script>>
    /\ cyc' = [cyc EXCEPT ![Script] = [NoCycle EXCEPT !.pc = "resolve", !.mon = Script]]
    /\ last_begin' = [last_begin EXCEPT ![Script] = now]
    /\ mainPc' = "script_show"
    /\ cur' = Script
    /\ UNCHANGED <<gui, now, made, running, output_formats, json, due, clock, schedPc, runq,
                   completed, view>>

\* the animation calls update_plot while plt.show() runs:
\* line_download.set_data(range(len(download_speeds)), list(download_speeds))
ScriptPlotDownload ==
    /\ mainPc = "script_show"
    /\ view.pc \in {"idle", "done"}
    /\ view' = [NoView EXCEPT !.pc = "ul", !.dl = download_speeds[Script]]
    /\ UNCHANGED <<gui, timer, config, history, sinks, schedule, clock, mainPc, cur, schedPc,
                   runq, cyc, completed>>

\* the plot window is closed: plt.show() returns and main enters while True
ScriptCloseWindow ==
    /\ mainPc = "script_show"
    /\ view.pc \in {"idle", "done"}
    /\ view' = NoView
    /\ mainPc' = "script_loop"
    /\ UNCHANGED <<gui, timer, config, history, sinks, schedule, clock, cur, schedPc, runq,
                   cyc, completed>>

\* schedule.run_pending() in the loop of main: the job, when it should run, is
\* called on the main thread; otherwise time.sleep(60)
ScriptRunPending ==
    /\ mainPc = "script_loop"
    /\ IF Runnable(jobs) # <<>>
       THEN /\ cyc' = [cyc EXCEPT ![MainThread] =
                                    [NoCycle EXCEPT !.pc = "resolve", !.mon = Script]]
            /\ last_begin' = [last_begin EXCEPT ![Script] = now]
            /\ mainPc' = "script_job"
       ELSE /\ mainPc' = "script_sleep"
            /\ UNCHANGED <<cyc, last_begin>>
    /\ UNCHANGED <<gui, now, next_run, config, history, sinks, schedule, clock, cur, schedPc,
                   runq, completed, view>>

\* the job returned: schedule sets its next run one interval from now; then
\* time.sleep(60)
ScriptJobDone ==
    /\ mainPc = "script_job"
    /\ cyc[MainThread].pc = "done"
    /\ due' = [due EXCEPT ![Script] = FALSE]
    /\ next_run' = [next_run EXCEPT ![Script] = now + interval_minutes[Script]]
    /\ cyc' = [cyc EXCEPT ![MainThread] = NoCycle]
    /\ mainPc' = "script_sleep"
    /\ UNCHANGED <<gui, now, last_begin, config, history, sinks, jobs, clock, cur, schedPc,
                   runq, completed, view>>

\* time.sleep(60) is over
ScriptWakes ==
    /\ mainPc = "script_sleep"
    /\ mainPc' = "script_loop"
    /\ UNCHANGED <<gui, timer, config, history, sinks, schedule, clock, cur, schedPc, runq,
                   cyc, completed, view>>

\* run_speed_test of the script: Speedtest(), get_servers([server_id]) with a
\* server_id, get_best_server()
ScriptResolve(t) ==
    /\ cyc[t].pc = "resolve"
    /\ cyc[t].mon = Script
    /\ cyc' = [cyc EXCEPT ![t].pc = "probe", ![t].tries = 1,
                          ![t].server = Resolved(Script)]
    /\ UNCHANGED <<gui, timer, config, history, sinks, schedule, clock, mainvars, schedPc,
                   runq, completed>>

\* st.download(), st.upload() on the server get_best_server chose,
\* st.results.ping, then datetime.now()
ScriptProbe(t, cap) ==
    /\ cyc[t].pc = "probe"
    /\ clock < cap
    /\ clock' = clock + 1
    /\ cyc' = [cyc EXCEPT ![t].pc = "app_ts", ![t].t = clock + 1,
                          ![t].probed = cyc[t].server]
    /\ UNCHANGED <<gui, timer, config, history, sinks, schedule, mainvars, schedPc, runq,
                   completed>>

\* pings.append(ping); the csv row is next
ScriptAppendPing(t) ==
    /\ cyc[t].pc = "app_pg"
    /\ pings' = [pings EXCEPT ![Script] = DequeAppend(@, cyc[t].t)]
    /\ cyc' = [cyc EXCEPT ![t].pc = "script_csv"]
    /\ UNCHANGED <<gui, timer, config, timestamps, download_speeds, upload_speeds, sinks,
                   schedule, clock, mainvars, schedPc, runq, completed>>

\* open('speed_test_results.csv', 'a') and one row; return True
ScriptSaveCsv(t) ==
    /\ cyc[t].pc = "script_csv"
    /\ csv' = [exists |-> TRUE, rows |-> Append(csv.rows, cyc[t].t)]
    /\ cyc' = [cyc EXCEPT ![t].pc = "done", ![t].ret = TRUE]
    /\ completed' = [completed EXCEPT ![Script] = @ + 1]
    /\ UNCHANGED <<gui, timer, config, history, json, schedule, clock, mainvars, schedPc,
                   runq>>

\* the open or the write raises: the except clause of run_speed_test logs the
\* error; return False
ScriptSaveCsvFails(t) ==
    /\ cyc[t].pc = "script_csv"
    /\ cyc' = [cyc EXCEPT ![t] = Failed(@, "csv")]
    /\ UNCHANGED <<gui, timer, config, history, sinks, schedule, clock, mainvars, schedPc,
                   runq, completed>>

\* the thread of the initial run_speed_test ends
ScriptThreadEnds ==
    /\ cyc[Script].pc = "done"
    /\ cyc' = [cyc EXCEPT ![Script] = NoCycle]
    /\ UNCHANGED <<gui, timer, config, history, sinks, schedule, clock, mainvars, schedPc,
                   runq, completed>>

ScriptMainStep ==
    \/ ScriptCloseWindow
    \/ ScriptRunPending
    \/ ScriptJobDone
    \/ ScriptWakes

ScriptCycleStep(t, cap) ==
    \/ ScriptResolve(t)
    \/ ResolveFails(t)
    \/ ScriptProbe(t, cap)
    \/ ProbeFails(t)
    \/ AppendTimestamp(t)
    \/ AppendDownload(t)
    \/ AppendUpload(t)
    \/ ScriptAppendPing(t)
    \/ ScriptSaveCsv(t)
    \/ ScriptSaveCsvFails(t)

ScriptPlotStep ==
    \/ ScriptPlotDownload
    \/ PlotUpload
    \/ PlotPing
    \/ PlotTimestamps

\* ------------------------------------------------------------ specifications
MainStep ==
    \/ Start
    \/ ShowPlot
    \/ CloseWindow
    \/ StopRunning
    \/ JoinReturns

SchedStep(m) ==
    \/ Register(m)
    \/ CheckRunning(m)
    \/ RunPending(m)
    \/ RunJob(m)
    \/ JobDone(m)

\* run_speed_test with every call of it returning, or failing before the probe
\* has returned
CycleStep(t, cap) ==
    \/ Resolve(t)
    \/ ResolveFails(t)
    \/ Probe(t, cap)
    \/ ProbeFails(t)
    \/ AppendTimestamp(t)
    \/ AppendDownload(t)
    \/ AppendUpload(t)
    \/ AppendPing(t)
    \/ SaveToCsv(t)
    \/ ReadJson(t)
    \/ SaveToJson(t)

\* a sink write of save_results fails
SinkFails(t) ==
    \/ SaveToCsvFails(t)
    \/ SaveToJsonFails(t)

PlotStep ==
    \/ PlotDownload
    \/ PlotUpload
    \/ PlotPing
    \/ PlotTimestamps

\* speedtest_monitor.main: one monitor, any configuration the caller passes
Next ==
    \/ Construct(1, Intervals, SUBSET Formats, {NoServerId})
    \/ ConstructFails(1, SUBSET Formats)
    \/ MainStep
    \/ \E m \in Monitors : SchedStep(m)
    \/ \E j \in Monitors : IntervalElapses(j)
    \/ \E t \in Threads : CycleStep(t, MaxMeasurements)
    \/ \E t \in Threads : SinkFails(t)
    \/ PlotStep

Spec == Init /\ [][Next]_vars

\* SpeedTestGUI.start_monitor: monitors constructed one after another, each with
\* at least one output format (the check of line 251)
NextGui ==
    \/ Construct(MaxSessions, Intervals, (SUBSET Formats) \ {{}}, {BestServer})
    \/ ConstructFails(MaxSessions, (SUBSET Formats) \ {{}})
    \/ MainStep
    \/ \E m \in Monitors : SchedStep(m)
    \/ \E j \in Monitors : IntervalElapses(j)
    \/ \E t \in Threads : CycleStep(t, MaxGuiMeasurements)
    \/ \E t \in Threads : SinkFails(t)

SpecGui == Init /\ [][NextGui]_vars

\* the interval elapses after the initial cycle of start() has returned: a
\* cycle that is shorter than the interval
IntervalElapsesLater(j) ==
    /\ mainPc # "initial"
    /\ IntervalElapses(j)

\* speedtest_monitor.main with the initial cycle shorter than the interval
NextSerial ==
    \/ Construct(1, Intervals, SUBSET Formats, {NoServerId})
    \/ ConstructFails(1, SUBSET Formats)
    \/ MainStep
    \/ \E m \in Monitors : SchedStep(m)
    \/ \E j \in Monitors : IntervalElapsesLater(j)
    \/ \E t \in Threads : CycleStep(t, MaxMeasurements)
    \/ \E t \in Threads : SinkFails(t)
    \/ PlotStep

SpecSerial == Init /\ [][NextSerial]_vars

\* One monitor over a long run in which the initial cycle is shorter than the
\* interval, every sink write succeeds and the view is idle.

NextLongRun ==
    \/ Construct(1, {1}, SUBSET Formats, {NoServerId})
    \/ MainStep
    \/ \E m \in Monitors : SchedStep(m)
    \/ \E j \in Monitors : IntervalElapsesLater(j)
    \/ \E t \in Threads : CycleStep(t, MaxLongRun)

SpecLongRun == Init /\ [][NextLongRun]_vars

\* speedtest_monitor.main under the scheduling the threads get: a thread that
\* can take a step takes one, and time passes.
NextFair ==
    \/ Construct(1, Intervals, SUBSET Formats, {NoServerId})
    \/ ConstructFails(1, SUBSET Formats)
    \/ MainStep
    \/ \E m \in Monitors : SchedStep(m)
    \/ \E j \in Monitors : IntervalElapses(j)
    \/ \E t \in Threads : CycleStep(t, MaxFairMeasurements)
    \/ \E t \in Threads : SinkFails(t)
    \/ PlotStep

Fairness ==
    /\ \A m \in Monitors : WF_vars(SchedStep(m))
    /\ \A j \in Monitors : WF_vars(IntervalElapses(j))
    /\ \A t \in Threads : WF_vars(CycleStep(t, MaxFairMeasurements) \/ SinkFails(t))

SpecFair == Init /\ [][NextFair]_vars /\ Fairness

\* speedtest_monitor.main with a positive interval and a sink at least, every
\* sink write succeeding and the view idle
NextReliable ==
    \/ Construct(1, {1}, (SUBSET Formats) \ {{}}, {NoServerId})
    \/ MainStep
    \/ \E m \in Monitors : SchedStep(m)
    \/ \E j \in Monitors : IntervalElapses(j)
    \/ \E t \in Threads : CycleStep(t, MaxReliableMeasurements)

SpecReliable == Init /\ [][NextReliable]_vars

\* the sinks as a run of the program leaves them after k cycles, in a row and
\* all successful, of a monitor with the formats fmts
PersistedCsv(k, fmts) ==
    IF "csv" \in fmts
    THEN [exists |-> TRUE, rows |-> <<Header>> \o [i \in 1..k |-> i]] ELSE NoFile
PersistedJson(k, fmts) ==
    IF "json" \in fmts THEN [exists |-> TRUE, rows |-> [i \in 1..k |-> i]] ELSE NoFile

\* the program is run again on the sinks an earlier run left
InitRestart ==
    /\ InitProcess
    /\ \E k \in 0..MaxPersisted, fmts \in SUBSET Formats :
        /\ csv = PersistedCsv(k, fmts)
        /\ json = PersistedJson(k, fmts)
        /\ clock = k

\* the clock reading up to which the run on earlier sinks is followed
RestartCap == IF completed[1] < MaxRestartMeasurements THEN clock + 1 ELSE clock

\* speedtest_monitor.main run again, with a positive interval, the initial
\* cycle shorter than the interval, every sink write succeeding, the view idle
NextRestart ==
    \/ Construct(1, {1}, SUBSET Formats, {NoServerId})
    \/ ConstructFails(1, SUBSET Formats)
    \/ MainStep
    \/ \E m \in Monitors : SchedStep(m)
    \/ \E j \in Monitors : IntervalElapsesLater(j)
    \/ \E t \in Threads : CycleStep(t, RestartCap)

SpecRestart == InitRestart /\ [][NextRestart]_vars

\* speedtest_monitor.main with a server_id or none, a positive interval, a
\* sink at least, the initial cycle shorter than the interval, every sink write
\* succeeding, the view idle
NextServer ==
    \/ Construct(1, {1}, (SUBSET Formats) \ {{}}, ServerIds)
    \/ MainStep
    \/ \E m \in Monitors : SchedStep(m)
    \/ \E j \in Monitors : IntervalElapsesLater(j)
    \/ \E t \in Threads : CycleStep(t, MaxServerMeasurements)
    \/ \E t \in Threads : ResolveNotFound(t)

SpecServer == Init /\ [][NextServer]_vars

\* speedtest_monitor.main with the time in minutes: an interval of one or two
\* minutes, both sinks, every sink write succeeding, the view idle, a probe
\* that takes any number of minutes, and scheduler threads that lose no time
\* but in time.sleep(1) and in the probe
NextTimed ==
    \/ Construct(1, {1, 2}, {Formats}, {NoServerId})
    \/ MainStep
    \/ \E m \in Monitors : SchedStep(m)
    \/ Tick(MaxTime)
    \/ \E t \in Threads : CycleStep(t, MaxTimedMeasurements)

SpecTimed == Init /\ [][NextTimed]_vars

\* speedtest_gui.main: the window with its server list, no monitor started
NextLoad ==
    \/ GuiInit
    \/ \E c \in Loads : LoadStep(c)
    \/ RefreshServers
    \/ EnableButton

SpecLoad == Init /\ [][NextLoad]_vars

\* myspeedtest.main with a server_id or none and a positive interval
NextScript ==
    \/ ScriptMain({1}, {NoServerId, 2})
    \/ ScriptMainStep
    \/ IntervalElapses(Script)
    \/ \E t \in Threads : ScriptCycleStep(t, MaxScriptMeasurements)
    \/ ScriptThreadEnds
    \/ ScriptPlotStep

\* the threads of the script take the steps they can take, the interval
\* elapses, the animation keeps calling update_plot; the user closes the
\* window or leaves it open
ScriptFairness ==
    /\ WF_vars(ScriptRunPending \/ ScriptJobDone \/ ScriptWakes)
    /\ WF_vars(IntervalElapses(Script))
    /\ \A t \in Threads : WF_vars(ScriptCycleStep(t, MaxScriptMeasurements))
    /\ WF_vars(ScriptThreadEnds)
    /\ WF_vars(ScriptPlotStep)

SpecScript == Init /\ [][NextScript]_vars /\ ScriptFairness

\* ------------------------------------------------------------------ claims
Range(s) == {s[i] : i \in 1..Len(s)}

\* the threads executing run_speed_test of monitor m
Cycles(m) == {t \in Threads : InFlight(t) /\ cyc[t].mon = m}
Quiescent(m) == Cycles(m) = {}

\* the configuration the spec allows: a positive interval, a sink at least
ValidConfig(m) == interval_minutes[m] > 0 /\ output_formats[m] # {}

\* a step in which thread t calls run_speed_test
Begins(t) == cyc[t].pc = "idle" /\ cyc'[t].pc = "resolve"

\* C1: at most one run_speed_test of a (validly configured) monitor is in
\* flight at any time.
C1_SingleFlight ==
    \A m \in Monitors : ValidConfig(m) => Cardinality(Cycles(m)) <= 1

\* C2: a finished update_plot has read the four series with the same
\* measurements in each: every measurement is in all four reads or in none.
C2_SnapshotNotTorn ==
    (view.pc = "done" /\ ValidConfig(cur)) =>
        /\ Range(view.dl) = Range(view.ul)
        /\ Range(view.ul) = Range(view.pg)
        /\ Range(view.pg) = Range(view.ts)

\* C3: no run_speed_test of a monitor begins once its running flag is cleared.
C3_NoCycleAfterStop ==
    [][\A t \in Threads :
          (Begins(t) /\ ValidConfig(cyc'[t].mon)) => running[cyc'[t].mon]]_vars

\* C4: with sessions run one after another, a scheduler thread only ever runs
\* the cycle of its own session: no other session's run_speed_test is invoked.
C4_SessionsIsolated ==
    \A m \in Monitors :
        (cyc[m].pc # "idle" /\ \A k \in 1..made : ValidConfig(k)) => cyc[m].mon = m

\* C5: from an empty history, once no cycle is in flight each series holds
\* min(N, MAX_POINTS) entries, N the cycles that succeeded; and no series is
\* ever longer than MAX_POINTS.
C5_HistoryLength ==
    \A m \in Monitors :
        /\ Len(timestamps[m]) <= MAX_POINTS
        /\ Len(download_speeds[m]) <= MAX_POINTS
        /\ Len(upload_speeds[m]) <= MAX_POINTS
        /\ Len(pings[m]) <= MAX_POINTS
        /\ Quiescent(m) =>
            /\ Len(timestamps[m]) = Min(completed[m], MAX_POINTS)
            /\ Len(download_speeds[m]) = Min(completed[m], MAX_POINTS)
            /\ Len(upload_speeds[m]) = Min(completed[m], MAX_POINTS)
            /\ Len(pings[m]) = Min(completed[m], MAX_POINTS)

C5_Witness ==
    /\ Quiescent(1)
    /\ completed[1] = MAX_POINTS + 1
    /\ Len(timestamps[1]) = MAX_POINTS
    /\ Len(pings[1]) = MAX_POINTS

\* what a series is after a strict-FIFO append of x
FifoAppended(s, x) ==
    IF Len(s) = MAX_POINTS THEN Tail(s) \o <<x>> ELSE s \o <<x>>

\* a step changes series s of monitor m only by the append of a cycle of m
\* that is at `stage`, and that append is a strict-FIFO append of its measurement
FifoStep(s, m, stage) ==
    /\ s'[m] # s[m] =>
        \E t \in Threads : cyc[t].pc = stage /\ cyc[t].mon = m /\ cyc'[t].pc # stage
    /\ \A t \in Threads :
        (cyc[t].pc = stage /\ cyc[t].mon = m /\ cyc'[t].pc # stage)
            => s'[m] = FifoAppended(s[m], cyc[t].t)

\* C6: a series changes only by an append, which adds the new measurement last
\* and, at MAX_POINTS entries, drops exactly the oldest one, keeping the order
\* of the others.
C6_FifoEviction ==
    [][\A m \in Monitors :
          /\ FifoStep(timestamps, m, "app_ts")
          /\ FifoStep(download_speeds, m, "app_dl")
          /\ FifoStep(upload_speeds, m, "app_ul")
          /\ FifoStep(pings, m, "app_pg")]_vars

C6_Witness ==
    /\ Len(timestamps[1]) = MAX_POINTS
    /\ timestamps[1][1] = 2
    /\ timestamps[1][MAX_POINTS] = MAX_POINTS + 1
    /\ pings[1] = timestamps[1]

\* C7: a cycle changes neither the history nor a sink before its probe has
\* returned, and a cycle returns False only from there: a cycle in which
\* resolution or a probe call fails leaves the history and the sinks as they were.
C7_FailedCycleRecordsNothing ==
    [][\A t \in Threads :
          /\ (cyc[t].pc \in {"resolve", "probe"} /\ cyc'[t] # cyc[t])
                => UNCHANGED <<history, sinks>>
          /\ (cyc[t].pc # "done" /\ cyc'[t].pc = "done" /\ ~cyc'[t].ret)
                => cyc[t].pc \in {"resolve", "probe"}]_vars

C7_Witness ==
    \E t \in Threads :
        /\ cyc[t].pc = "done"
        /\ ~cyc[t].ret
        /\ cyc[t].errs = {"probe"}
        /\ timestamps[cyc[t].mon] # <<>>
        /\ csv.rows # <<>>

\* C8: after a failure (of resolution, of the probe or of a sink write) in a
\* cycle run by the scheduler loop, the loop begins another cycle unless the
\* monitor is stopped.
C8_LoopSurvivesFailure ==
    \A m \in Monitors :
        [](  (schedPc[m] = "jobs" /\ cyc[m].errs # {})
          => <>(cyc[m].pc = "resolve" \/ ~running[m]))

C8_Witness ==
    \E m \in Monitors :
        /\ schedPc[m] = "jobs"
        /\ cyc[m].pc = "done"
        /\ ~cyc[m].ret
        /\ running[m]

\* C9: no cycle ever runs for a monitor whose interval is not positive or whose
\* output-format set is empty.
C9_InvalidConfigNeverRuns ==
    \A t \in Threads :
        cyc[t].pc # "idle" =>
            /\ interval_minutes[cyc[t].mon] > 0
            /\ output_formats[cyc[t].mon] # {}

\* C10: with both sinks active, a cycle in which a sink write failed has
\* returned True and has its measurement in the history; whether the tabular
\* write failed or not, the structured write is attempted next, the history
\* as it was, and it is attempted only after the tabular one; and a write that
\* does not fail puts the measurement last in its sink, whatever the other
\* write did.
C10_SinkFailureIsolated ==
    /\ [](\A t \in Threads :
            (/\ cyc[t].pc = "done"
             /\ output_formats[cyc[t].mon] = Formats
             /\ cyc[t].errs \cap Formats # {}) =>
                /\ cyc[t].ret
                /\ cyc[t].t \in Range(pings[cyc[t].mon]))
    /\ [][\A t \in Threads :
            (cyc[t].pc # "idle" /\ output_formats[cyc[t].mon] = Formats) =>
                /\ (cyc[t].pc = "save_csv" /\ cyc'[t].pc # "save_csv") =>
                     /\ cyc'[t].pc = "save_json"
                     /\ UNCHANGED history
                     /\ "csv" \notin cyc'[t].errs =>
                          csv'.rows = Append(csv.rows, cyc[t].t)
                /\ (cyc[t].pc # "save_json" /\ cyc'[t].pc = "save_json") =>
                     cyc[t].pc = "save_csv"
                /\ (cyc[t].pc = "write_json" /\ cyc'[t].pc # "write_json") =>
                     /\ cyc'[t].pc = "done"
                     /\ UNCHANGED history
                     /\ "json" \notin cyc'[t].errs =>
                          (json'.rows # <<>> /\ json'.rows[Len(json'.rows)] = cyc[t].t)]_vars

C10_Witness ==
    \E t \in Monitors :
        /\ cyc[t].pc = "done"
        /\ output_formats[cyc[t].mon] = Formats
        /\ cyc[t].errs = {"csv"}
        /\ cyc[t].ret
        /\ cyc[t].t \in Range(json.rows)
        /\ cyc[t].t \notin Range(csv.rows)
        /\ cyc[t].t \in Range(timestamps[cyc[t].mon])

\* the entries of s are in the order their cycles read the clock
InCycleOrder(s) == \A i, j \in 1..Len(s) : i < j => s[i] < s[j]

\* s is the beginning of r
IsPrefix(s, r) == Len(s) <= Len(r) /\ SubSeq(r, 1, Len(s)) = s

\* C11: with the structured sink active and every write succeeding, once no
\* cycle is in flight the document holds one entry per cycle that succeeded,
\* in cycle order.
C11_StructuredSinkComplete ==
    \A m \in Monitors :
        (Quiescent(m) /\ "json" \in output_formats[m]) =>
            /\ json.exists
            /\ Len(json.rows) = completed[m]
            /\ InCycleOrder(json.rows)

\* C12: with the tabular sink active and every write succeeding, the file is
\* one header row followed, once no cycle is in flight, by one data row per
\* cycle that succeeded, in cycle order; and no step changes or removes a row
\* the file already has.
C12_TabularSinkRows ==
    /\ [](\A m \in Monitors :
            "csv" \in output_formats[m] =>
                /\ csv.exists
                /\ Head(csv.rows) = Header
                /\ Header \notin Range(Tail(csv.rows))
                /\ Quiescent(m) =>
                    /\ Len(csv.rows) = 1 + completed[m]
                    /\ InCycleOrder(Tail(csv.rows)))
    /\ [][IsPrefix(csv.rows, csv'.rows)]_vars

Last(s) == s[Len(s)]

\* C13: initialize_output_files leaves a sink that exists as it is, creates an
\* absent sink that is requested with its header row (tabular) or its empty
\* list (structured) and nothing else, creates no sink that is not requested,
\* and a second call changes nothing.
C13_InitializeIdempotent ==
    [][(mainPc = "idle" /\ (made' # made \/ made = 0)) =>
          /\ csv.exists => csv' = csv
          /\ json.exists => json' = json
          /\ ~csv.exists => csv' \in {csv, [exists |-> TRUE, rows |-> <<Header>>]}
          /\ ~json.exists => json' \in {json, [exists |-> TRUE, rows |-> <<>>]}
          /\ made' # made =>
                LET fmts == output_formats'[made']
                IN  /\ csv'.exists <=> (csv.exists \/ "csv" \in fmts)
                    /\ json'.exists <=> (json.exists \/ "json" \in fmts)
                    /\ InitCsv(csv', fmts) = csv'
                    /\ InitJson(json', fmts) = json']_vars

C13_Witness ==
    /\ mainPc = "start"
    /\ output_formats[1] = Formats
    /\ csv.rows = <<Header, 1, 2>>
    /\ json = [exists |-> TRUE, rows |-> <<>>]

\* C14: a monitor constructed on the sinks that a run with the same, non-empty
\* formats left has in its history the measurement that run persisted last.
C14_RoundTrip ==
    LET fmts == output_formats[cur]
        Recovered(n) ==
            /\ n \in Range(timestamps[cur])
            /\ n \in Range(download_speeds[cur])
            /\ n \in Range(upload_speeds[cur])
            /\ n \in Range(pings[cur])
    IN  (/\ mainPc = "start"
         /\ fmts # {}
         /\ csv.exists <=> "csv" \in fmts
         /\ json.exists <=> "json" \in fmts) =>
            /\ ("csv" \in fmts /\ Len(csv.rows) > 1) => Recovered(Last(csv.rows))
            /\ ("json" \in fmts /\ json.rows # <<>>) => Recovered(Last(json.rows))

\* C15: a cycle of a monitor with a server_id, once its lookup has found the
\* endpoint and its probe has run, has probed the endpoint with that id, and
\* the endpoint named in the data it records is the endpoint it probed.
C15_ExplicitServerProbed ==
    \A t \in Threads :
        (cyc[t].probed # 0 /\ server_id[cyc[t].mon] # NoServerId) =>
            /\ cyc[t].probed = server_id[cyc[t].mon]
            /\ cyc[t].server = cyc[t].probed

\* the monitor has a server_id that get_servers() does not know
UnknownId(m) == server_id[m] \notin Servers \cup {NoServerId}

\* C16: a cycle of a monitor whose server_id no endpoint has never reaches the
\* probe: it returns False after one lookup with the error logged, nothing is
\* added to the history or to a sink, and the scheduler thread does not end
\* while the monitor is running.
C16_UnknownServerFails ==
    /\ \A t \in Threads :
        (cyc[t].pc # "idle" /\ UnknownId(cyc[t].mon)) =>
            /\ cyc[t].pc \in {"resolve", "done"}
            /\ cyc[t].probed = 0
            /\ cyc[t].pc = "done" =>
                /\ ~cyc[t].ret
                /\ cyc[t].tries = 1
                /\ cyc[t].errs \in {{"notfound"}, {"resolve"}}
    /\ \A m \in Monitors :
        UnknownId(m) =>
            /\ timestamps[m] = <<>> /\ download_speeds[m] = <<>>
            /\ upload_speeds[m] = <<>> /\ pings[m] = <<>>
            /\ completed[m] = 0
            /\ "csv" \in output_formats[m] => csv.rows = <<Header>>
            /\ "json" \in output_formats[m] => json.rows = <<>>
            /\ schedPc[m] = "exited" => ~running[m]

C16_Witness ==
    \E m \in Monitors :
        /\ schedPc[m] = "jobs"
        /\ cyc[m].pc = "done"
        /\ cyc[m].errs = {"notfound"}
        /\ UnknownId(cyc[m].mon)
        /\ running[m]

\* C17: with no server_id, a cycle fails for the resolution of the endpoint
\* only after 1 + 3 attempts at it.
C17_ResolutionRetried ==
    \A t \in Threads :
        (/\ cyc[t].pc = "done"
         /\ server_id[cyc[t].mon] = NoServerId
         /\ "resolve" \in cyc[t].errs) => cyc[t].tries = 1 + 3

\* C18: the join of start() can return whenever it is reached, whatever the
\* scheduler thread is doing; and, every call of a cycle returning, the
\* scheduler thread of a monitor that is stopped ends.
C18_StopNeverBlocks ==
    /\ [](mainPc = "join" => ENABLED JoinReturns)
    /\ \A m \in Monitors :
        []((schedPc[m] # "new" /\ ~running[m]) => <>(schedPc[m] = "exited"))

C18_Witness ==
    /\ mainPc = "join"
    /\ schedPc[cur] = "jobs"
    /\ cyc[cur].pc = "probe"

\* a step in which scheduler thread t returns from run_speed_test
Returns(t) == cyc[t].pc = "done" /\ cyc'[t].pc = "idle"

\* C19 as amended: start() calls one cycle at once and no other; the scheduler
\* thread begins a cycle of a job exactly when the job's next_run is reached,
\* which is one interval after the job was registered or after its latest
\* cycle returned; and time does not pass a running monitor's next_run without
\* its cycle having begun.
C19_OnePerIntervalSinceReturn ==
    /\ [][/\ (mainPc = "start" /\ mainPc' # "start") =>
                (Begins(MainThread) /\ cyc'[MainThread].mon = cur)
          /\ Begins(MainThread) => mainPc = "start"
          /\ \A t \in Monitors :
                /\ Begins(t) => now = next_run[cyc'[t].mon]
                /\ Returns(t) =>
                     next_run'[cyc[t].mon] = now + interval_minutes[cyc[t].mon]
                /\ (schedPc[t] = "register" /\ schedPc'[t] # "register") =>
                     next_run'[t] = now + interval_minutes[t]]_vars
    /\ [](\A m \in Monitors :
            (running[m] /\ schedPc[m] \in {"check", "pending", "jobs"}) =>
                (now <= next_run[m] \/ cyc[m].pc # "idle"))

C19_Witness ==
    /\ schedPc[1] = "jobs"
    /\ cyc[1].pc = "resolve"
    /\ interval_minutes[1] = 1
    /\ now = next_run[1]
    /\ now = 3
    /\ last_begin[1] = 3

\* C19: the cycles of a monitor begin exactly one interval apart: the first
\* scheduled one an interval after the cycle of start(), each later one an
\* interval after the one before.
C19_OnePerInterval ==
    [][\A t \in Monitors :
          Begins(t) =>
              now - last_begin[cyc'[t].mon] = interval_minutes[cyc'[t].mon]]_vars

\* C20: the timestamps of a history are in the order they were read from the
\* clock: an entry before another was measured no later.
C20_HistoryChronological ==
    \A m \in Monitors :
        \A i, j \in 1..Len(timestamps[m]) :
            i < j => timestamps[m][i] <= timestamps[m][j]

\* no cycle of monitor m is between its first and its last append
NoAppendInProgress(m) ==
    \A t \in Threads :
        cyc[t].mon = m => cyc[t].pc \notin {"app_dl", "app_ul", "app_pg"}

\* C24: whenever no append is in progress the four series have the same
\* length and hold, at each position, the fields of one measurement.
C24_SeriesAligned ==
    \A m \in Monitors :
        NoAppendInProgress(m) =>
            /\ timestamps[m] = download_speeds[m]
            /\ download_speeds[m] = upload_speeds[m]
            /\ upload_speeds[m] = pings[m]

\* the measurements the active sinks of a monitor with the formats fmts hold
PersistedBy(fmts) ==
    IF "csv" \in fmts /\ csv.exists THEN Tail(csv.rows)
    ELSE IF "json" \in fmts /\ json.exists THEN json.rows
    ELSE <<>>

\* C25: a monitor just constructed has as its history the last
\* min(n, MAX_POINTS) of the n measurements its active sinks hold, in their
\* stored order: nothing when they hold none, and nothing of a sink that is
\* not among its formats.
C25_HydratedFromActiveSinks ==
    mainPc = "start" =>
        LET rows == PersistedBy(output_formats[cur])
            n == Len(rows)
            want == SubSeq(rows, n - Min(n, MAX_POINTS) + 1, n)
        IN  /\ timestamps[cur] = want
            /\ download_speeds[cur] = want
            /\ upload_speeds[cur] = want
            /\ pings[cur] = want

\* C26: no run_speed_test executes on the thread that calls start() and runs
\* the plot event loop: every cycle is on a scheduler thread.
C26_CyclesOffViewThread ==
    cyc[MainThread].pc = "idle"

\* the load chains that still have an attempt running or a retry pending
ActiveLoads == {c \in Loads : loads[c].pc \notin {"none", "done"}}

\* an attempt of some load chain is running: its _load is between
\* self.loading = True and the end of its finally block
LoadInProgress ==
    \E c \in Loads : loads[c].pc \in {"get", "except", "read", "write", "error", "finally"}

\* C21: the load chain of one trigger (construction or an accepted refresh)
\* that no further refresh follows makes at most max_retries + 1 attempts;
\* it makes no attempt after a success, shows the error at most once and only
\* after its (max_retries + 1)th failed attempt, and ends only with a success
\* or with the error shown.
C21_LoadAttemptsBounded ==
    (started >= 1 /\ refreshes = started - 1) =>
        LET load == loads[started] IN
            /\ load.attempts <= max_retries + 1
            /\ load.errors <= 1
            /\ load.errors = 1 => load.attempts = max_retries + 1
            /\ load.ok => load.pc \in {"finally", "done"} /\ load.errors = 0
            /\ load.pc = "done" => load.ok \/ load.errors = 1

\* C22: at most one load chain has an attempt running or a retry pending, so
\* no refresh is accepted while an earlier chain is still active.
C22_OneLoadChain == Cardinality(ActiveLoads) <= 1

\* C23: a call of refresh_servers while no load attempt is running sets
\* retry_count to 0 and starts one load, a call while a load attempt is running
\* leaves retry_count alone and starts none; retry_count goes back to 0 in no
\* other step, and no step of a measurement cycle changes it.
C23_ResetOnlyByRefresh ==
    [][ /\ refreshes' # refreshes =>
               IF LoadInProgress
               THEN retry_count' = retry_count /\ started' = started
               ELSE retry_count' = 0 /\ started' = started + 1
        /\ (retry_count # 0 /\ retry_count' = 0) => refreshes' # refreshes
        /\ cyc' # cyc => retry_count' = retry_count ]_vars

\* C27: in the script, while the plot window is displayed, a job that is due
\* leads to a scheduled cycle beginning (or to the window being closed first):
\* scheduled cycles do not wait for the view to be closed.
C27_ScheduledWhileDisplayed ==
    (mainPc = "script_show" /\ due[Script]) ~> (mainPc # "script_show")

====
